---- MODULE Spec2Model ----
(***************************************************************************)
(* Verification model of the video-search backend:                         *)
(*   - the LLM model registry (backend/app/services/llms.py, LLMService)   *)
(*     and the HTTP handlers that drive it (backend/app/routes/llms.py,    *)
(*     backend/app/routes/search.py);                                      *)
(*   - the segment store and the keyword / semantic query strategies       *)
(*     (backend/app/services/search.py, SearchService, and the earlier     *)
(*     backend/app/services/question_answering.py).                        *)
(* Handles of loaded objects are natural numbers (0 is Python's None),     *)
(* texts are tuples of one-character strings, times are whole seconds and  *)
(* distances / scores are fixed-point integers.                            *)
(***************************************************************************)
EXTENDS Integers, Sequences, FiniteSets, TLC

VARIABLES
    has_gpu,            \* LLMService._has_gpu
    hf_token,           \* LLMService._hf_token is set (truthy)
    models,             \* LLMService._models: id -> descriptor
    active_model_id,    \* LLMService._active_model_id
    active_model,       \* LLMService._active_model (handle, 0 = None)
    active_tokenizer,   \* LLMService._active_tokenizer (handle, 0 = None)
    loads,              \* number of from_pretrained() pairs that succeeded
    gen,                \* the generate_answer call in progress, if any
    waiting,            \* a request accepted while the event loop is busy
    last,               \* the last completed call: operation, argument, outcome
    collection,         \* SearchService._collection: stored segments, in order
    resp                \* the last query response

regvars == <<has_gpu, hf_token, models, active_model_id, active_model,
             active_tokenizer, loads, gen, waiting, last>>
storevars == <<collection, resp>>
vars == <<has_gpu, hf_token, models, active_model_id, active_model,
          active_tokenizer, loads, gen, waiting, last, collection, resp>>

----------------------------------------------------------------------------
(* Bounds *)

\* successful loads after which from_pretrained() only fails
MaxLoads == 3

----------------------------------------------------------------------------
(* Model registry: backend/app/services/llms.py *)

NoneId == "None"
NoHandle == 0

\* the ids _register_available_models can register, in registration order
RegistrationOrder ==
    <<"tinyllama", "qwen-2.5", "phi-2", "gemma-2b", "stablelm-2", "smollm2",
      "mistral-7b">>

ModelIds == {RegistrationOrder[i] : i \in 1..Len(RegistrationOrder)}

\* ids a client can send to POST /llms/select
SelectIds == ModelIds \cup {"unknown"}

\* values of the DEFAULT_LLM environment variable
DefaultIds == {"tinyllama", "qwen-2.5", "mistral-7b", "unknown"}

NoModels == [id \in {} |-> 0]

Registry(ms, aid, am, at) ==
    [models |-> ms, active_model_id |-> aid, active_model |-> am,
     active_tokenizer |-> at]

CurrentRegistry ==
    Registry(models, active_model_id, active_model, active_tokenizer)

\* faulty variant: a duplicate id replaces the registered descriptor
register_model_overwrite(ms, model_id, display_name, hf_model_id, requires_gpu) ==
    [models |-> (model_id :>
                [id |-> model_id, name |-> display_name,
                 hf_model_id |-> hf_model_id, requires_gpu |-> requires_gpu,
                 loaded |-> FALSE, model |-> NoHandle, tokenizer |-> NoHandle])
                @@ ms,
     ret |-> model_id \notin DOMAIN ms]

\* _register_model: metadata only, a duplicate id is refused
register_model(ms, model_id, display_name, hf_model_id, requires_gpu) ==
    IF model_id \in DOMAIN ms
    THEN [models |-> ms, ret |-> FALSE]
    ELSE [models |-> ms @@ (model_id :>
                [id |-> model_id, name |-> display_name,
                 hf_model_id |-> hf_model_id, requires_gpu |-> requires_gpu,
                 loaded |-> FALSE, model |-> NoHandle, tokenizer |-> NoHandle]),
          ret |-> TRUE]

\* faulty variant: the GPU model is registered whether or not a GPU is present
register_available_models_nogate(ms, gpu, tok) ==
    LET m1 == register_model(ms, "tinyllama", "TinyLlama (1.1B)",
                  "TinyLlama/TinyLlama-1.1B-Chat-v1.0", FALSE).models
        m2 == register_model(m1, "qwen-2.5", "Qwen 2.5 (0.5B)",
                  "Qwen/Qwen2.5-0.5B-Instruct", FALSE).models
        m3 == register_model(m2, "phi-2", "Phi-2 (2.7B)",
                  "microsoft/phi-2", FALSE).models
        m4 == IF tok
              THEN register_model(m3, "gemma-2b", "Gemma 2 (2B)",
                       "google/gemma-2-2b-it", FALSE).models
              ELSE m3
        m5 == register_model(m4, "stablelm-2", "StableLM 2 (1.6B)",
                  "stabilityai/stablelm-2-1_6b-chat", FALSE).models
        m6 == register_model(m5, "smollm2", "SmolLM2 (1.7B)",
                  "HuggingFaceTB/SmolLM2-1.7B-Instruct", FALSE).models
    IN  register_model(m6, "mistral-7b", "Mistral 7B Instruct",
            "mistralai/Mistral-7B-Instruct-v0.2", TRUE).models

\* faulty variant: the GPU model is registered when there is NO GPU (inverted test)
register_available_models_inverted(ms, gpu, tok) ==
    LET m1 == register_model(ms, "tinyllama", "TinyLlama (1.1B)",
                  "TinyLlama/TinyLlama-1.1B-Chat-v1.0", FALSE).models
        m2 == register_model(m1, "qwen-2.5", "Qwen 2.5 (0.5B)",
                  "Qwen/Qwen2.5-0.5B-Instruct", FALSE).models
        m3 == register_model(m2, "phi-2", "Phi-2 (2.7B)",
                  "microsoft/phi-2", FALSE).models
        m4 == IF tok
              THEN register_model(m3, "gemma-2b", "Gemma 2 (2B)",
                       "google/gemma-2-2b-it", FALSE).models
              ELSE m3
        m5 == register_model(m4, "stablelm-2", "StableLM 2 (1.6B)",
                  "stabilityai/stablelm-2-1_6b-chat", FALSE).models
        m6 == register_model(m5, "smollm2", "SmolLM2 (1.7B)",
                  "HuggingFaceTB/SmolLM2-1.7B-Instruct", FALSE).models
    IN  IF ~gpu
        THEN register_model(m6, "mistral-7b", "Mistral 7B Instruct",
                 "mistralai/Mistral-7B-Instruct-v0.2", TRUE).models
        ELSE m6

\* _register_available_models
register_available_models(ms, gpu, tok) ==
    LET m1 == register_model(ms, "tinyllama", "TinyLlama (1.1B)",
                  "TinyLlama/TinyLlama-1.1B-Chat-v1.0", FALSE).models
        m2 == register_model(m1, "qwen-2.5", "Qwen 2.5 (0.5B)",
                  "Qwen/Qwen2.5-0.5B-Instruct", FALSE).models
        m3 == register_model(m2, "phi-2", "Phi-2 (2.7B)",
                  "microsoft/phi-2", FALSE).models
        m4 == IF tok
              THEN register_model(m3, "gemma-2b", "Gemma 2 (2B)",
                       "google/gemma-2-2b-it", FALSE).models
              ELSE m3
        m5 == register_model(m4, "stablelm-2", "StableLM 2 (1.6B)",
                  "stabilityai/stablelm-2-1_6b-chat", FALSE).models
        m6 == register_model(m5, "smollm2", "SmolLM2 (1.7B)",
                  "HuggingFaceTB/SmolLM2-1.7B-Instruct", FALSE).models
    IN  IF gpu
        THEN register_model(m6, "mistral-7b", "Mistral 7B Instruct",
                 "mistralai/Mistral-7B-Instruct-v0.2", TRUE).models
        ELSE m6

\* faulty variant: the descriptor is reset but the registry keeps its handles
unload_active_model_keeps_handles(r) ==
    IF r.active_model_id # NoneId
    THEN Registry([r.models EXCEPT ![r.active_model_id].loaded = FALSE,
                                   ![r.active_model_id].model = NoHandle,
                                   ![r.active_model_id].tokenizer = NoHandle],
                  NoneId, r.active_model, r.active_tokenizer)
    ELSE r

\* faulty variant: the handles are dropped but the descriptor keeps loaded = True
unload_active_model_keeps_flag(r) ==
    IF r.active_model_id # NoneId
    THEN Registry([r.models EXCEPT ![r.active_model_id].model = NoHandle,
                                   ![r.active_model_id].tokenizer = NoHandle],
                  NoneId, NoHandle, NoHandle)
    ELSE r

\* unload_active_model
unload_active_model(r) ==
    IF r.active_model_id # NoneId
    THEN Registry([r.models EXCEPT ![r.active_model_id].loaded = FALSE,
                                   ![r.active_model_id].model = NoHandle,
                                   ![r.active_model_id].tokenizer = NoHandle],
                  NoneId, NoHandle, NoHandle)
    ELSE r

\* the keyword arguments load_model builds for from_pretrained
model_kwargs(info, gpu) ==
    IF info.requires_gpu /\ gpu THEN "quantized" ELSE "float32"

\* faulty variant: the previous model is unloaded only once the new one has loaded
load_model_unload_late(r, model_id, gpu, ok, h) ==
    IF model_id \notin DOMAIN r.models
    THEN [reg |-> r, ret |-> FALSE, load |-> "none", kwargs |-> "none"]
    ELSE
      LET info == r.models[model_id]
      IN  IF info.loaded
          THEN [reg |-> Registry(r.models, model_id, info.model, info.tokenizer),
                ret |-> TRUE, load |-> "none", kwargs |-> "none"]
          ELSE IF ok
          THEN LET r1 == IF r.active_model_id # NoneId
                            /\ r.active_model_id # model_id
                         THEN unload_active_model(r) ELSE r
               IN [reg |-> Registry(
                       [r1.models EXCEPT ![model_id].loaded = TRUE,
                                         ![model_id].model = h,
                                         ![model_id].tokenizer = h],
                       model_id, h, h),
                   ret |-> TRUE, load |-> "ok",
                   kwargs |-> model_kwargs(info, gpu)]
          ELSE [reg |-> r, ret |-> FALSE, load |-> "fail",
                kwargs |-> model_kwargs(info, gpu)]

\* load_model: ok says whether the two from_pretrained() calls (and .to())
\* return rather than raise, h is the handle of the objects they return
load_model(r, model_id, gpu, ok, h) ==
    IF model_id \notin DOMAIN r.models
    THEN [reg |-> r, ret |-> FALSE, load |-> "none", kwargs |-> "none"]
    ELSE
      LET r1 == IF r.active_model_id # NoneId /\ r.active_model_id # model_id
                THEN unload_active_model(r) ELSE r
          info == r1.models[model_id]
      IN  IF info.loaded
          THEN [reg |-> Registry(r1.models, model_id, info.model, info.tokenizer),
                ret |-> TRUE, load |-> "none", kwargs |-> "none"]
          ELSE IF ok
          THEN [reg |-> Registry(
                    [r1.models EXCEPT ![model_id].loaded = TRUE,
                                      ![model_id].model = h,
                                      ![model_id].tokenizer = h],
                    model_id, h, h),
                ret |-> TRUE, load |-> "ok", kwargs |-> model_kwargs(info, gpu)]
          ELSE [reg |-> r1, ret |-> FALSE, load |-> "fail",
                kwargs |-> model_kwargs(info, gpu)]

\* faulty variant: the active model is unloaded before the id is looked up
select_model_unloads_first(r, model_id, gpu, ok, h) ==
    IF model_id \in DOMAIN r.models
    THEN load_model(r, model_id, gpu, ok, h)
    ELSE [reg |-> unload_active_model(r), ret |-> FALSE, load |-> "none",
          kwargs |-> "none"]

\* select_model
select_model(r, model_id, gpu, ok, h) == load_model(r, model_id, gpu, ok, h)

\* next(iter(self._models.keys())): the first registered id
FirstKey(ms) ==
    LET idx == {i \in 1..Len(RegistrationOrder) : RegistrationOrder[i] \in DOMAIN ms}
    IN  RegistrationOrder[CHOOSE i \in idx : \A j \in idx : i <= j]

\* _initialize's choice of self._active_model_id: DEFAULT_LLM if it is
\* registered, else the first registered id
default_active_id(ms, default_model_id) ==
    IF default_model_id \in DOMAIN ms THEN default_model_id
    ELSE IF Cardinality(DOMAIN ms) > 0 THEN FirstKey(ms)
    ELSE NoneId

\* _initialize: the catalog, the active id, then load_model(active id)
initialize(gpu, tok, default_model_id, ok) ==
    LET ms  == register_available_models(NoModels, gpu, tok)
        aid == default_active_id(ms, default_model_id)
    IN  load_model(Registry(ms, aid, NoHandle, NoHandle), aid, gpu, ok, 1)

\* faulty variant: generate_answer tests the active id instead of the handles
has_active_model_by_id(r) == r.active_model_id # NoneId

\* generate_answer's entry test: "not self._active_model or not
\* self._active_tokenizer" raises ValueError("No model loaded")
has_active_model(r) ==
    r.active_model # NoHandle /\ r.active_tokenizer # NoHandle

----------------------------------------------------------------------------
(* Request handling: backend/app/routes/llms.py, backend/app/routes/search.py *)

IdleGen == [pc |-> "idle", id |-> NoneId, model |-> NoHandle, tokenizer |-> NoHandle]
NoRequest == [op |-> "none", arg |-> NoneId]

\* requests that can arrive while another handler occupies the event loop
ModelRequests ==
    {[op |-> "select", arg |-> id] : id \in SelectIds}
        \cup {[op |-> "unload", arg |-> NoneId]}

\* faulty variant: the handlers run the service call on a worker thread
\* (run_in_executor), so a handler may start while another is running
LoopFreeThreaded == TRUE

\* select_llm and query_transcript are "async def" handlers that call the
\* service synchronously and never await: each runs to completion on the
\* event-loop thread, so a handler starts only when no other is running
LoopFree == gen.pc = "idle"

Completed(op, arg, ret, load, kwargs, invoked, answer_model_id) ==
    [op |-> op, arg |-> arg, ret |-> ret, load |-> load, kwargs |-> kwargs,
     invoked |-> invoked, answer_model_id |-> answer_model_id,
     pre |-> CurrentRegistry]

SetRegistry(r) ==
    /\ models' = r.models
    /\ active_model_id' = r.active_model_id
    /\ active_model' = r.active_model
    /\ active_tokenizer' = r.active_tokenizer

\* llm_service.select_model(request.model_id) inside select_llm
DoSelect(model_id) ==
    \E ok \in BOOLEAN :
        /\ ok => loads < MaxLoads
        /\ LET out == select_model(CurrentRegistry, model_id, has_gpu, ok, loads + 1)
           IN  /\ SetRegistry(out.reg)
               /\ loads' = IF out.load = "ok" THEN loads + 1 ELSE loads
               /\ last' = Completed("select", model_id,
                                    IF out.ret THEN "True" ELSE "False",
                                    out.load, out.kwargs, FALSE, NoneId)

\* llm_service.unload_active_model()
DoUnload ==
    /\ SetRegistry(unload_active_model(CurrentRegistry))
    /\ loads' = loads
    /\ last' = Completed("unload", NoneId, "None", "none", "none", FALSE, NoneId)

Select(model_id) ==
    /\ LoopFree
    /\ DoSelect(model_id)
    /\ UNCHANGED <<has_gpu, hf_token, gen, waiting, collection, resp>>

UnloadActive ==
    /\ LoopFree
    /\ DoUnload
    /\ UNCHANGED <<has_gpu, hf_token, gen, waiting, collection, resp>>

\* faulty variant: the answer names the first registered model
parsed_model_id_first(r) == FirstKey(r.models)

\* model_id=self._active_model_id in _parse_response, read when the
\* generated text is parsed
parsed_model_id(r) == r.active_model_id

\* generate_answer up to the call of self._active_model.generate: the entry
\* test, the prompt and the tokenizer call
GenerateBegin ==
    /\ LoopFree
    /\ IF has_active_model(CurrentRegistry)
       THEN /\ gen' = [pc |-> "running", id |-> active_model_id,
                       model |-> active_model, tokenizer |-> active_tokenizer]
            /\ last' = last
       ELSE /\ gen' = gen
            /\ last' = Completed("generate", NoneId, "ValueError", "none",
                                 "none", FALSE, NoneId)
    /\ UNCHANGED <<has_gpu, hf_token, models, active_model_id, active_model,
                   active_tokenizer, loads, waiting, collection, resp>>

\* generate_answer from the return of generate on: decode with
\* self._active_tokenizer, _parse_response reads self._active_model_id
GenerateEnd ==
    /\ gen.pc = "running"
    /\ gen' = IdleGen
    /\ \E raised \in BOOLEAN :
         last' = [Completed("generate", NoneId,
                            IF raised THEN "Exception" ELSE "LlmAnswer",
                            "none", "none", TRUE,
                            IF raised THEN NoneId
                            ELSE parsed_model_id(CurrentRegistry))
                  EXCEPT !.pre = Registry(models, gen.id, gen.model, gen.tokenizer)]
    /\ UNCHANGED <<has_gpu, hf_token, models, active_model_id, active_model,
                   active_tokenizer, loads, waiting, collection, resp>>

\* a client sends a select (or the service is asked to unload) while a
\* generation occupies the event loop: the request is accepted and waits
RequestWhileBusy(req) ==
    /\ gen.pc = "running"
    /\ waiting = NoRequest
    /\ waiting' = req
    /\ UNCHANGED <<has_gpu, hf_token, models, active_model_id, active_model,
                   active_tokenizer, loads, gen, last, collection, resp>>

\* the waiting request's handler runs once the event loop is free
RunWaiting ==
    /\ LoopFree
    /\ waiting # NoRequest
    /\ IF waiting.op = "select" THEN DoSelect(waiting.arg) ELSE DoUnload
    /\ waiting' = NoRequest
    /\ UNCHANGED <<has_gpu, hf_token, gen, collection, resp>>

\* calls of _register_model: an id the catalog holds on every host, an id
\* it holds on GPU hosts only, and an id it never holds
Registrations ==
    { [id |-> "tinyllama", name |-> "TinyLlama (renamed)",
       hf_model_id |-> "org/other", requires_gpu |-> TRUE],
      [id |-> "mistral-7b", name |-> "Mistral 7B Instruct",
       hf_model_id |-> "mistralai/Mistral-7B-Instruct-v0.2", requires_gpu |-> TRUE],
      [id |-> "custom", name |-> "Custom", hf_model_id |-> "org/custom",
       requires_gpu |-> FALSE] }

\* self._register_model(id, name, hf_model_id, requires_gpu)
RegisterModel(r) ==
    /\ LoopFree
    /\ LET out == register_model(models, r.id, r.name, r.hf_model_id,
                                 r.requires_gpu)
       IN  /\ models' = out.models
           /\ last' = Completed("register", r.id,
                                IF out.ret THEN "True" ELSE "False",
                                "none", "none", FALSE, NoneId)
                      @@ [registration |-> r]
    /\ UNCHANGED <<has_gpu, hf_token, active_model_id, active_model,
                   active_tokenizer, loads, gen, waiting, collection, resp>>

NoResponse == [svc |-> "none"]

\* llm_service = LLMService() at import: _initialize under every environment
InitRegistry ==
    \E gpu \in BOOLEAN, tok \in BOOLEAN, d \in DefaultIds, ok \in BOOLEAN :
        LET out == initialize(gpu, tok, d, ok)
        IN  /\ has_gpu = gpu
            /\ hf_token = tok
            /\ models = out.reg.models
            /\ active_model_id = out.reg.active_model_id
            /\ active_model = out.reg.active_model
            /\ active_tokenizer = out.reg.active_tokenizer
            /\ loads = IF out.load = "ok" THEN 1 ELSE 0
            /\ gen = IdleGen
            /\ waiting = NoRequest
            /\ last = [op |-> "init",
                       arg |-> default_active_id(out.reg.models, d),
                       ret |-> IF out.ret THEN "True" ELSE "False",
                       load |-> out.load, kwargs |-> out.kwargs,
                       invoked |-> FALSE, answer_model_id |-> NoneId,
                       pre |-> Registry(NoModels, NoneId, NoHandle, NoHandle)]

Init ==
    /\ InitRegistry
    /\ collection = <<>>
    /\ resp = NoResponse

Next ==
    \/ \E id \in SelectIds : Select(id)
    \/ UnloadActive
    \/ GenerateBegin
    \/ GenerateEnd
    \/ \E req \in ModelRequests : RequestWhileBusy(req)
    \/ RunWaiting

Spec == Init /\ [][Next]_vars

\* ids selected in the runs that register models
RegisterSelectIds == {"tinyllama", "qwen-2.5", "custom"}

NextRegister ==
    \/ \E r \in Registrations : RegisterModel(r)
    \/ \E id \in RegisterSelectIds : Select(id)
    \/ UnloadActive

SpecRegister == Init /\ [][NextRegister]_vars

----------------------------------------------------------------------------
(* Segment store and query strategies: backend/app/services/search.py,     *)
(* backend/app/services/question_answering.py                              *)

\* largest top_k a request carries
MaxTopK == 3

\* Python's str.lower on the characters the texts use
LowerChar(c) == IF c = "A" THEN "a" ELSE IF c = "B" THEN "b" ELSE c

lower(text) == [i \in 1..Len(text) |-> LowerChar(text[i])]

\* Python's "needle in hay" on strings
contains(needle, hay) ==
    \E i \in 0..(Len(hay) - Len(needle)) :
        SubSeq(hay, i + 1, i + Len(needle)) = needle

\* Python's seq[:k] for an integer k of either sign
slice_to(seq, k) ==
    IF k >= 0
    THEN SubSeq(seq, 1, IF k < Len(seq) THEN k ELSE Len(seq))
    ELSE SubSeq(seq, 1, IF Len(seq) + k > 0 THEN Len(seq) + k ELSE 0)

Segment(id, start, end, text) ==
    [id |-> id, start |-> start, end |-> end, text |-> text]

\* the transcripts the transcription routes hand to index_transcript;
\* segment ids are "<transcript id>_<i>"
Transcripts ==
    { [id |-> "t1",
       segments |-> << Segment("t1_0", 0, 5, <<"A", "b">>),
                       Segment("t1_1", 5, 10, <<"b">>),
                       Segment("t1_2", 10, 15, <<"a", "B">>) >>],
      [id |-> "t2",
       segments |-> << Segment("t2_0", 0, 4, <<"B">>),
                       Segment("t2_1", 4, 8, <<"b", "a">>) >>],
      [id |-> "t3", segments |-> << >>] }

\* index_transcript called again for t1 with a segment whose id is stored
\* already and whose content differs
Reindexed ==
    { [id |-> "t1", segments |-> << Segment("t1_0", 0, 6, <<"b", "b">>) >>] }

\* a transcript with a silence between its two segments
Gapped ==
    { [id |-> "t4",
       segments |-> << Segment("t4_0", 0, 6, <<"a">>),
                       Segment("t4_1", 8, 15, <<"b">>) >>] }

TranscriptIds == {tr.id : tr \in Transcripts}

\* transcript_id of a request: an id, or None for an unscoped query
Scopes == TranscriptIds \cup {NoneId}

Questions == { << >>, <<"a">>, <<"B">>, <<"a", "b">>, <<"b", "b">> }

\* top_k of a request: << >> is None, <<k>> an integer
TopKs == { << >> } \cup { <<k>> : k \in -1..MaxTopK }

\* distances the store can return, in units of 0.00001; the collection uses
\* cosine space, whose distance ranges over [0, 2]
Distances == {0, 25005, 100000, 150000}

\* one stored entry: the document with its metadata
StoredEntry(transcript_id, segment) ==
    [document |-> segment.text,
     metadata |-> [transcript_id |-> transcript_id,
                   start_time |-> segment.start,
                   end_time |-> segment.end,
                   id |-> segment.id]]

\* self._collection.add(documents, metadatas, ids): entries whose id is
\* already stored are left as they are, new ones are appended
collection_add(coll, entries) ==
    LET stored == {coll[i].metadata.id : i \in 1..Len(coll)}
    IN  coll \o SelectSeq(entries, LAMBDA e : e.metadata.id \notin stored)

\* index_transcript
index_transcript(coll, transcript) ==
    IF Len(transcript.segments) = 0
    THEN coll
    ELSE collection_add(coll,
             [i \in 1..Len(transcript.segments) |->
                 StoredEntry(transcript.id, transcript.segments[i])])

\* faulty variant: the where filter is left out
collection_get_unscoped(coll, transcript_id) == coll

\* self._collection.get(where=where_filter), in storage order
collection_get(coll, transcript_id) ==
    SelectSeq(coll, LAMBDA e :
        transcript_id = NoneId \/ e.metadata.transcript_id = transcript_id)

QueryResult(metadata, document, score) ==
    [segment_id |-> metadata.id,
     start_time |-> metadata.start_time,
     end_time |-> metadata.end_time,
     text |-> document,
     transcript_id |-> metadata.transcript_id,
     relevance_score |-> score]

Response(svc, response_type, question, transcript_id, top_k, results, raised) ==
    [svc |-> svc, search_type |-> response_type, question |-> question,
     transcript_id |-> transcript_id, top_k |-> top_k, results |-> results,
     raised |-> raised]

\* the indices i of documents whose lower-cased text contains the
\* lower-cased question, in order
MatchingIndices(entries, question) ==
    SelectSeq([i \in 1..Len(entries) |-> i],
              LAMBDA i : contains(lower(question), lower(entries[i].document)))

\* SearchService._keyword_search
keyword_search(coll, question, transcript_id, top_k) ==
    LET entries == collection_get(coll, transcript_id)
        filtered == MatchingIndices(entries, question)
        kept == IF top_k # << >> /\ top_k[1] # 0
                THEN slice_to(filtered, top_k[1]) ELSE filtered
    IN  Response("search", "keyword", question, transcript_id, top_k,
            [j \in 1..Len(kept) |->
                QueryResult(entries[kept[j]].metadata,
                            entries[kept[j]].document, << >>)],
            FALSE)

\* QuestionAnsweringService._keyword_search: the filter keeps the documents
\* only, and the metadata is then taken by position in the filtered list
qa_keyword_search(coll, question, transcript_id) ==
    LET entries == collection_get(coll, transcript_id)
        filtered == MatchingIndices(entries, question)
    IN  Response("qa", "keyword", question, transcript_id, << >>,
            [j \in 1..Len(filtered) |->
                QueryResult(entries[j].metadata,
                            entries[filtered[j]].document, << >>)],
            FALSE)

\* round(x, 2) of a value given in units of 0.001, in units of 0.01
\* (ties to even, as Python rounds an exactly representable tie)
round2(thousandths) ==
    LET q == thousandths \div 10
        r == thousandths % 10
    IN  IF r < 5 THEN q
        ELSE IF r > 5 THEN q + 1
        ELSE IF q % 2 = 0 THEN q ELSE q + 1

\* round((1 - distances[i]) * 100, 2): distance in units of 0.00001,
\* score in units of 0.01
relevance_score(distance) == round2(100000 - distance)

RECURSIVE Rankings(_, _)
\* the sequences of at most n distinct members of S (exactly n if S has them)
Rankings(S, n) ==
    IF n <= 0 \/ S = {} THEN { << >> }
    ELSE UNION { { <<s>> \o r : r \in Rankings(S \ {s}, n - 1) } : s \in S }

RECURSIVE DistanceLists(_, _)
\* the non-decreasing sequences of n distances from D
DistanceLists(D, n) ==
    IF n <= 0 THEN { << >> }
    ELSE UNION { { <<d>> \o r : r \in DistanceLists({e \in D : e >= d}, n - 1) }
                 : d \in D }

\* n_results the store refuses: None or a non-positive integer
query_raises(top_k) == top_k = << >> \/ top_k[1] <= 0

\* self._collection.query(query_texts, n_results, where): every ranking of
\* min(n_results, count) matching entries, with distances in rank order
collection_query(coll, transcript_id, top_k) ==
    LET entries == collection_get(coll, transcript_id)
        idx == 1..Len(entries)
    IN  UNION { { [j \in 1..Len(rk) |-> [entry |-> entries[rk[j]], distance |-> ds[j]]]
                  : ds \in DistanceLists(Distances, Len(rk)) }
                : rk \in Rankings(idx, top_k[1]) }

\* SearchService._semantic_search on the hits the store returned
semantic_search(svc, question, transcript_id, top_k, hits) ==
    Response(svc, "semantic", question, transcript_id, top_k,
        [j \in 1..Len(hits) |->
            QueryResult(hits[j].entry.metadata, hits[j].entry.document,
                        <<relevance_score(hits[j].distance)>>)],
        FALSE)

\* the response a handler gives when the service call raised (HTTP 500)
Raised(svc, search_type, question, transcript_id, top_k) ==
    Response(svc, search_type, question, transcript_id, top_k, << >>, TRUE)

\* POST /transcribe: search_service.index_transcript(transcript)
IndexTranscript(transcript) ==
    /\ resp = NoResponse
    /\ collection' = index_transcript(collection, transcript)
    /\ resp' = [svc |-> "index", transcript |-> transcript,
                before |-> collection_get(collection, transcript.id)]
    /\ UNCHANGED regvars

\* values of QuestionRequest.search_type served by the keyword branch or by
\* the dispatcher's fallback
KeywordTypes == {"keyword", "visual", "visual_semantic"}

\* a response together with the search_type the request asked for
Requested(search_type, response) == response @@ [requested |-> search_type]

\* the exception a branch logs and raises again, named by what failed
Failed(error, response) == response @@ [error |-> error]

\* SearchService.query_transcript, keyword branch and the else branch; the
\* read of the store succeeds or raises
QueryKeyword(question, transcript_id, top_k, search_type) ==
    /\ resp = NoResponse
    /\ \E store_fails \in BOOLEAN :
          resp' = Requested(search_type,
                    IF store_fails
                    THEN Failed("store", Raised("search", "keyword", question,
                                                transcript_id, top_k))
                    ELSE keyword_search(collection, question, transcript_id,
                                        top_k))
    /\ collection' = collection
    /\ UNCHANGED regvars

\* SearchService.query_transcript, semantic branch
QuerySemantic(question, transcript_id, top_k) ==
    /\ resp = NoResponse
    /\ \E store_fails \in BOOLEAN :
          IF query_raises(top_k) \/ store_fails
          THEN resp' = Requested("semantic",
                          Failed("store", Raised("search", "semantic", question,
                                                 transcript_id, top_k)))
          ELSE \E hits \in collection_query(collection, transcript_id, top_k) :
                   resp' = Requested("semantic",
                               semantic_search("search", question, transcript_id,
                                               top_k, hits))
    /\ collection' = collection
    /\ UNCHANGED regvars

\* QuestionAnsweringService.query_transcript, keyword branch
QAQueryKeyword(question, transcript_id, top_k) ==
    /\ resp = NoResponse
    /\ resp' = Requested("keyword",
                         qa_keyword_search(collection, question, transcript_id))
    /\ collection' = collection
    /\ UNCHANGED regvars

\* values of search_type that QuestionAnsweringService.query_transcript
\* sends to its else branch
QAFallbackTypes == {"llm", "multimodal"}

\* QuestionAnsweringService.query_transcript, else branch: the warning, then
\* self._keyword_search(question, transcript_id, top_k), a call with one
\* argument more than _keyword_search takes, which raises TypeError
QAQueryFallback(question, transcript_id, top_k, search_type) ==
    /\ resp = NoResponse
    /\ resp' = Requested(search_type,
                         Failed("TypeError", Raised("qa", "keyword", question,
                                                    transcript_id, top_k)))
    /\ collection' = collection
    /\ UNCHANGED regvars

\* the handler returns and the response is sent to the client
Deliver ==
    /\ resp # NoResponse
    /\ resp' = NoResponse
    /\ collection' = collection
    /\ UNCHANGED regvars

\* the registry of a CPU-only host without a Hugging Face token
InitSearch ==
    LET out == initialize(FALSE, FALSE, "tinyllama", TRUE)
    IN  /\ has_gpu = FALSE
        /\ hf_token = FALSE
        /\ models = out.reg.models
        /\ active_model_id = out.reg.active_model_id
        /\ active_model = out.reg.active_model
        /\ active_tokenizer = out.reg.active_tokenizer
        /\ loads = 1
        /\ gen = IdleGen
        /\ waiting = NoRequest
        /\ last = [op |-> "init", arg |-> "tinyllama", ret |-> "True",
                   load |-> out.load, kwargs |-> out.kwargs,
                   invoked |-> FALSE, answer_model_id |-> NoneId,
                   pre |-> Registry(NoModels, NoneId, NoHandle, NoHandle)]
        /\ collection = << >>
        /\ resp = NoResponse

RECURSIVE join(_)
\* " ".join(documents): a single blank between two documents
join(documents) ==
    IF Len(documents) = 0 THEN << >>
    ELSE IF Len(documents) = 1 THEN documents[1]
    ELSE documents[1] \o <<" ">> \o join(Tail(documents))

RECURSIVE sort_pairs(_)
\* segment_pairs.sort(key=lambda x: x[1]["start_time"]): stable, ascending
sort_pairs(entries) ==
    IF Len(entries) <= 1 THEN entries
    ELSE LET h == Head(entries)
             rest == sort_pairs(Tail(entries))
         IN  SelectSeq(rest, LAMBDA e :
                 e.metadata.start_time < h.metadata.start_time)
             \o <<h>>
             \o SelectSeq(rest, LAMBDA e :
                 e.metadata.start_time >= h.metadata.start_time)

\* faulty variant: the documents are joined in the order the store returned
\* them
get_transcript_text_unsorted(entries) ==
    IF Len(entries) = 0
    THEN << >>
    ELSE << join([i \in 1..Len(entries) |-> entries[i].document]) >>

\* SearchService.get_transcript_text_by_id on the entries the store
\* returned: << >> is None, <<text>> the reconstructed text
get_transcript_text_by_id(entries) ==
    IF Len(entries) = 0
    THEN << >>
    ELSE LET segment_pairs == sort_pairs(entries)
         IN  << join([i \in 1..Len(segment_pairs) |->
                         segment_pairs[i].document]) >>

\* summarize_transcript_by_id: None without a call of the backend when
\* there is no text, else what call_ollama returns or raises
summarize_transcript_by_id(transcript_id, returned, store_fails, ollama_fails) ==
    LET transcript_text == get_transcript_text_by_id(returned)
        no_text == transcript_text = << >> \/ transcript_text[1] = << >>
    IN  [svc |-> "summarization", transcript_id |-> transcript_id,
         returned |-> IF store_fails THEN << >> ELSE returned,
         text |-> IF store_fails THEN << >> ELSE transcript_text,
         called |-> ~store_fails /\ ~no_text,
         raised |-> store_fails \/ (~no_text /\ ollama_fails),
         summary |-> IF store_fails \/ no_text \/ ollama_fails
                     THEN "None" ELSE "summary"]

\* POST /summarization/transcript; the store returns the entries of the
\* transcript in an order its interface leaves open
SummarizeTranscript(transcript_id) ==
    /\ resp = NoResponse
    /\ LET entries == collection_get(collection, transcript_id)
       IN  \E order \in Permutations(1..Len(entries)),
              store_fails \in BOOLEAN, ollama_fails \in BOOLEAN :
               resp' = summarize_transcript_by_id(
                           transcript_id,
                           [i \in 1..Len(entries) |-> entries[order[i]]],
                           store_fails, ollama_fails)
    /\ collection' = collection
    /\ UNCHANGED regvars

NextSearch ==
    \/ \E tr \in Transcripts : IndexTranscript(tr)
    \/ \E t \in TranscriptIds : SummarizeTranscript(t)
    \/ \E tr \in Reindexed : IndexTranscript(tr)
    \/ \E q \in Questions, t \in Scopes, k \in TopKs, st \in KeywordTypes :
           QueryKeyword(q, t, k, st)
    \/ \E q \in Questions, t \in Scopes, k \in TopKs : QuerySemantic(q, t, k)
    \/ \E q \in Questions, t \in Scopes, k \in TopKs : QAQueryKeyword(q, t, k)
    \/ \E q \in Questions, t \in Scopes, k \in TopKs, st \in QAFallbackTypes :
           QAQueryFallback(q, t, k, st)
    \/ Deliver

SpecSearch == InitSearch /\ [][NextSearch]_vars

----------------------------------------------------------------------------
(* Answer parsing: backend/app/services/llms.py (_parse_response) and
   backend/app/services/synthesis.py (_parse_response).  A generated text is
   a sequence of tokens: the headers, blanks, line breaks, words and
   key-point bullets a model can emit. *)

IsSpace(tok) == tok \in {" ", "\n"}

\* str.upper() on a token
upper(tok) ==
    CASE tok = "summary:" -> "SUMMARY:"
      [] tok = "completeness:" -> "COMPLETENESS:"
      [] tok = "not found" -> "NOT FOUND"
      [] OTHER -> tok

\* the bullets "- <content> (timestamp: <n>s)" that key_point_pattern
\* matches, with the groups it captures
KeyPoints ==
    ("- intro (timestamp: 0s)" :> [content |-> "intro", timestamp_seconds |-> 0])
    @@ ("- middle (timestamp: 7s)" :> [content |-> "middle", timestamp_seconds |-> 7])
    @@ ("- end (timestamp: 15s)" :> [content |-> "end", timestamp_seconds |-> 15])
    @@ ("- beyond (timestamp: 16s)" :> [content |-> "beyond", timestamp_seconds |-> 16])

\* texts the active model can generate
RawTexts ==
    { <<"SUMMARY:", "\n", "Cats", "\n", "\n", "COMPLETENESS:", "\n", "COMPLETE">>,
      <<"SUMMARY:", "\n", "Cats", "\n", "KEY POINTS:", "\n",
        "- intro (timestamp: 0s)", "\n", "- beyond (timestamp: 16s)", "\n",
        "COMPLETENESS:", "\n", "NOT FOUND">>,
      <<"SUMMARY:", "\n", "Cats", "\n", "COMPLETENESS:", " ", "NOT FOUND">>,
      <<"summary:", "\n", "Cats", "\n", "completeness:", "\n", "not found">>,
      <<" ", "Cats", " ", "purr", "\n">>,
      << >>,
      <<"SUMMARY:", "\n", "Cats", "\n", "COMPLETENESS:", "\n", "PARTIAL", "\n",
        "NOT FOUND">>,
      <<"KEY POINTS:", "\n", "- middle (timestamp: 7s)", "\n",
        "- end (timestamp: 15s)", "\n", "COMPLETENESS:", " ", "\n", "NOT_FOUND">>,
      <<"COMPLETENESS:", "\n", "COMPLETE", "\n", "\n", "SUMMARY:", " ", "Cats">>,
      <<"SUMMARY:", "\n", "COMPLETENESS:", "\n", "COMPLETE">> }

\* str.strip()
strip(text) ==
    LET solid == {i \in 1..Len(text) : ~IsSpace(text[i])}
    IN  IF solid = {} THEN << >>
        ELSE SubSeq(text,
                    CHOOSE i \in solid : \A j \in solid : i <= j,
                    CHOOSE i \in solid : \A j \in solid : j <= i)

\* " ".join(s.split()): the words of s, separated by single blanks
normalize_whitespace(text) == SelectSeq(text, LAMBDA tok : ~IsSpace(tok))

\* a header of the pattern at position i, under re.IGNORECASE or not
header_at(text, i, header, ignore_case) ==
    IF ignore_case THEN upper(text[i]) = header ELSE text[i] = header

\* "<header>\s*\n" matched at position i: the position after the match, or 0
\* when the blanks after the header hold no line break
after_header(text, i) ==
    LET run == {j \in (i + 1)..Len(text) :
                    \A k \in (i + 1)..j : IsSpace(text[k])}
        breaks == {j \in run : text[j] = "\n"}
    IN  IF breaks = {} THEN 0
        ELSE 1 + CHOOSE j \in breaks : \A k \in breaks : k <= j

\* re.search(r"<header>\s*\n(...)", text): where group 1 starts for the
\* leftmost match, or 0 when the pattern does not match
search_header(text, header, ignore_case) ==
    LET hits == {i \in 1..Len(text) :
                    /\ header_at(text, i, header, ignore_case)
                    /\ after_header(text, i) # 0}
    IN  IF hits = {} THEN 0
        ELSE after_header(text, CHOOSE i \in hits : \A j \in hits : i <= j)

\* group 1 of "(.*?)" from position start up to the first token that is
\* the stop token (a header or a line break), or to the end of the text
lazy_group(text, start, stop, ignore_case) ==
    LET stops == {j \in start..Len(text) : header_at(text, j, stop, ignore_case)}
    IN  IF stops = {} THEN SubSeq(text, start, Len(text))
        ELSE SubSeq(text, start, (CHOOSE j \in stops : \A k \in stops : j <= k) - 1)

\* the summary a parser extracts: group 1 of
\* r"SUMMARY:\s*\n(.*?)(?=<next header>:|$)", stripped and normalized;
\* << >> when there is no match
extract_summary(text, next_header, ignore_case) ==
    LET start == search_header(text, "SUMMARY:", ignore_case)
    IN  IF start = 0 THEN << >>
        ELSE normalize_whitespace(
                 lazy_group(text, start, next_header, ignore_case))

\* faulty variant: the value is compared without upper()
mentions_not_found_as_written(line) ==
    \E i \in 1..Len(line) : line[i] \in {"NOT FOUND", "NOT_FOUND"}

\* "NOT FOUND" in completeness_str or "NOT_FOUND" in completeness_str, with
\* completeness_str = group(1).strip().upper()
mentions_not_found(line) ==
    \E i \in 1..Len(line) : upper(line[i]) \in {"NOT FOUND", "NOT_FOUND"}

\* not_addressed as both parsers set it from
\* r"COMPLETENESS:\s*\n(.*?)(?:\n|$)"
extract_not_addressed(text, ignore_case) ==
    LET start == search_header(text, "COMPLETENESS:", ignore_case)
    IN  IF start = 0 THEN FALSE
        ELSE mentions_not_found(
                 strip(lazy_group(text, start, "\n", ignore_case)))

\* response.split("\n\n")[0].strip()
first_paragraph(text) ==
    LET gaps == {i \in 1..(Len(text) - 1) : text[i] = "\n" /\ text[i + 1] = "\n"}
    IN  strip(IF gaps = {} THEN text
              ELSE SubSeq(text, 1, (CHOOSE i \in gaps : \A j \in gaps : i <= j) - 1))

\* f"Analysis of the video transcript regarding: {question}"
placeholder_summary(question) ==
    <<"Analysis of the video transcript regarding: ">> \o question

\* the summary fallbacks: the first paragraph unless it is empty or starts
\* with one of the headers, else the placeholder
fallback_summary(text, question, headers) ==
    LET first_para == first_paragraph(text)
    IN  IF first_para # << >> /\ first_para[1] \notin headers
        THEN first_para
        ELSE placeholder_summary(question)

\* LLMService._parse_response of services/llms.py: an LlmAnswer has a
\* summary, not_addressed and model_id, and no points
parse_response(response, question, model_id) ==
    LET text == strip(response)
        summary == extract_summary(text, "COMPLETENESS:", TRUE)
    IN  [summary |-> IF summary # << >> THEN summary
                     ELSE fallback_summary(text, question,
                                           {"SUMMARY:", "COMPLETENESS:"}),
         not_addressed |-> extract_not_addressed(text, TRUE),
         model_id |-> model_id]

\* faulty variant: every timestamp the model wrote is accepted
in_segment_range_unchecked(timestamp, segments) == TRUE

\* segments and timestamp >= segments[0]["start_time"]
\*          and timestamp <= segments[-1]["end_time"]
in_segment_range(timestamp, segments) ==
    /\ Len(segments) > 0
    /\ timestamp >= segments[1].start_time
    /\ timestamp <= segments[Len(segments)].end_time

\* the points of the KEY POINTS: block whose timestamp is in range
extract_points(text, segments) ==
    LET start == search_header(text, "KEY POINTS:", FALSE)
        block == IF start = 0 THEN << >>
                 ELSE strip(lazy_group(text, start, "COMPLETENESS:", FALSE))
        bullets == SelectSeq(block, LAMBDA tok :
                       /\ tok \in DOMAIN KeyPoints
                       /\ in_segment_range(KeyPoints[tok].timestamp_seconds,
                                           segments))
    IN  [i \in 1..Len(bullets) |-> KeyPoints[bullets[i]]]

\* the point added when none was extracted and there are segments
fallback_points(segments) ==
    IF Len(segments) > 0
    THEN << [content |-> "Relevant information found in the transcript",
             timestamp_seconds |-> segments[1].start_time] >>
    ELSE << >>

\* LLMService._parse_response of services/synthesis.py
synthesis_parse_response(response, question, segments, model_id) ==
    LET text == strip(response)
        summary == extract_summary(text, "KEY POINTS:", FALSE)
        points == extract_points(text, segments)
    IN  [summary |-> IF summary # << >> THEN summary
                     ELSE fallback_summary(text, question,
                              {"SUMMARY:", "KEY POINTS:", "COMPLETENESS:"}),
         points |-> IF points # << >> THEN points ELSE fallback_points(segments),
         not_addressed |-> extract_not_addressed(text, FALSE),
         model_id |-> model_id]

----------------------------------------------------------------------------
(* The LLM strategy: backend/app/services/search.py (_llm_search) with
   llm_service.generate_answer of backend/app/services/llms.py *)

RECURSIVE sort_by_start_time(_)
\* list.sort(key=lambda x: x.start_time): stable, ascending
sort_by_start_time(seq) ==
    IF Len(seq) <= 1 THEN seq
    ELSE LET h == Head(seq)
             rest == sort_by_start_time(Tail(seq))
         IN  SelectSeq(rest, LAMBDA e : e.start_time < h.start_time)
             \o <<h>>
             \o SelectSeq(rest, LAMBDA e : e.start_time >= h.start_time)

\* faulty variant: the segments are passed on in storage order
all_segments_unsorted(entries) ==
    [i \in 1..Len(entries) |->
        QueryResult(entries[i].metadata, entries[i].document, << >>)]

\* all_segments: every entry the store returned as a QueryResult without a
\* score, sorted by start time
all_segments(entries) ==
    sort_by_start_time(
        [i \in 1..Len(entries) |->
            QueryResult(entries[i].metadata, entries[i].document, << >>)])

\* faulty variant: the transcript is never found empty
no_segments_never(entries) == FALSE

\* not all_segments_result or not all_segments_result["documents"]
no_segments(entries) == Len(entries) = 0

\* what the handler hands back for an llm query; error, invoked and context
\* record how the call went: the exception raised, whether
\* self._active_model.generate was called, and the segments given to
\* generate_answer
LlmResponse(question, transcript_id, top_k, results, summary, not_addressed, model_id, error, invoked, context) ==
    [svc |-> "search", search_type |-> "llm", question |-> question,
     transcript_id |-> transcript_id, top_k |-> top_k, results |-> results,
     raised |-> error # "none", summary |-> summary,
     not_addressed |-> not_addressed, model_id |-> model_id,
     error |-> error, invoked |-> invoked, context |-> context]

\* faulty variant: the explicit response names the active model
no_transcript_response_active_id(reg, question, transcript_id, top_k) ==
    LlmResponse(question, transcript_id, top_k, << >>,
                <<"No transcript found.">>, TRUE, reg.active_model_id,
                "none", FALSE, << >>)

\* the response for a transcript without segments
no_transcript_response(reg, question, transcript_id, top_k) ==
    LlmResponse(question, transcript_id, top_k, << >>,
                <<"No transcript found.">>, TRUE, "none", "none", FALSE, << >>)

\* LLMService.generate_answer of services/llms.py: raw is the text the
\* model generates, gen_raises whether tokenizing, generating or decoding
\* raises
generate_answer(reg, question, segments, gen_raises, raw) ==
    IF ~has_active_model(reg)
    THEN [error |-> "ValueError", invoked |-> FALSE,
          answer |-> parse_response(<< >>, question, reg.active_model_id)]
    ELSE IF gen_raises
    THEN [error |-> "Exception", invoked |-> TRUE,
          answer |-> parse_response(<< >>, question, reg.active_model_id)]
    ELSE [error |-> "none", invoked |-> TRUE,
          answer |-> parse_response(raw, question, reg.active_model_id)]

\* faulty variant: the failure is swallowed and the results of the semantic
\* step are returned on their own
llm_failure_swallowed(question, transcript_id, top_k, semantic, error, invoked, context) ==
    [LlmResponse(question, transcript_id, top_k, semantic.results, << >>,
                 FALSE, NoneId, error, invoked, context)
        EXCEPT !.raised = FALSE]

\* SearchService._llm_search, the except clause: the exception of the
\* semantic step, of the store or of the generation is logged and raised
\* again, and nothing computed so far is returned
llm_failure(question, transcript_id, top_k, semantic, error, invoked, context) ==
    LlmResponse(question, transcript_id, top_k, << >>, << >>, FALSE, NoneId,
                error, invoked, context)

\* SearchService._llm_search: the semantic step first, then every segment
\* of the scope, the explicit response when there is none, else the answer
\* generated over all of them
llm_search(coll, reg, question, transcript_id, top_k, store_fails, hits, gen_raises, raw) ==
    LET semantic == semantic_search("search", question, transcript_id, top_k, hits)
        entries == collection_get(coll, transcript_id)
        segments == all_segments(entries)
        out == generate_answer(reg, question, segments, gen_raises, raw)
    IN  IF query_raises(top_k) \/ store_fails
        THEN llm_failure(question, transcript_id, top_k, semantic, "store",
                         FALSE, << >>)
        ELSE IF no_segments(entries)
        THEN no_transcript_response(reg, question, transcript_id, top_k)
        ELSE IF out.error # "none"
        THEN llm_failure(question, transcript_id, top_k, semantic, out.error,
                         out.invoked, segments)
        ELSE LlmResponse(question, transcript_id, top_k, semantic.results,
                         out.answer.summary, out.answer.not_addressed,
                         out.answer.model_id, "none", out.invoked, segments)

\* the inputs of the llm queries
LlmQuestions == { <<"a">>, <<"a", "b">> }
LlmTopKs == { << >>, <<0>>, <<1>> }
LlmSelectIds == {"tinyllama", "qwen-2.5"}

\* SearchService.query_transcript, llm branch
QueryLlm(question, transcript_id, top_k) ==
    /\ LoopFree
    /\ resp = NoResponse
    /\ \E store_fails \in BOOLEAN :
          IF query_raises(top_k) \/ store_fails
          THEN resp' = llm_search(collection, CurrentRegistry, question,
                                  transcript_id, top_k, store_fails, << >>,
                                  FALSE, << >>)
          ELSE \E hits \in collection_query(collection, transcript_id, top_k),
                  gen_raises \in BOOLEAN, raw \in RawTexts :
                   resp' = llm_search(collection, CurrentRegistry, question,
                                      transcript_id, top_k, FALSE, hits,
                                      gen_raises, raw)
    /\ collection' = collection
    /\ UNCHANGED regvars

\* a CPU-only host without a Hugging Face token whose initial load of the
\* default model succeeded or failed
InitLlm ==
    /\ Init
    /\ ~has_gpu /\ ~hf_token
    /\ last.arg = "tinyllama"

NextLlm ==
    \/ \E id \in LlmSelectIds : resp = NoResponse /\ Select(id)
    \/ resp = NoResponse /\ UnloadActive
    \/ \E tr \in Transcripts : IndexTranscript(tr)
    \/ \E q \in LlmQuestions, t \in Scopes, k \in LlmTopKs : QueryLlm(q, t, k)
    \/ \E q \in LlmQuestions, t \in Scopes, k \in LlmTopKs :
          QueryKeyword(q, t, k, "keyword")
    \/ \E q \in LlmQuestions, t \in Scopes, k \in LlmTopKs :
          QuerySemantic(q, t, k)
    \/ Deliver

SpecLlm == InitLlm /\ [][NextLlm]_vars

----------------------------------------------------------------------------
(* The parsers on their own *)

\* the segment list the synthesizer of services/synthesis.py is called
\* with: every segment of the scope, sorted by start time
synthesizer_segments(coll, transcript_id) ==
    all_segments(collection_get(coll, transcript_id))

abs(n) == IF n < 0 THEN -n ELSE n

\* faulty variant: a timestamp that no segment contains is given the first
\* segment
supporting_segment_or_first(timestamp_seconds, segments) ==
    LET containing == {i \in 1..Len(segments) :
                          /\ segments[i].start_time <= timestamp_seconds
                          /\ timestamp_seconds <= segments[i].end_time}
    IN  IF containing # {}
        THEN segments[CHOOSE i \in containing : \A j \in containing : i <= j]
        ELSE segments[1]

\* Grounding Resolver, one point: the first segment whose [start, end]
\* contains the timestamp, else the first of those whose start is nearest
supporting_segment(timestamp_seconds, segments) ==
    LET containing == {i \in 1..Len(segments) :
                          /\ segments[i].start_time <= timestamp_seconds
                          /\ timestamp_seconds <= segments[i].end_time}
        nearest == {i \in 1..Len(segments) :
                       \A j \in 1..Len(segments) :
                           abs(segments[i].start_time - timestamp_seconds)
                             <= abs(segments[j].start_time - timestamp_seconds)}
        chosen == IF containing # {} THEN containing ELSE nearest
    IN  segments[CHOOSE i \in chosen : \A j \in chosen : i <= j]

\* Grounding Resolver: one supporting segment for each point, in the order
\* of the points; nothing when there is no segment
resolve_supporting_segments(points, segments) ==
    IF segments = << >>
    THEN << >>
    ELSE [i \in 1..Len(points) |->
             supporting_segment(points[i].timestamp_seconds, segments)]

\* services/llms.py: answer = self._parse_response(response, question)
ParseLlmAnswer(raw, question) ==
    /\ resp = NoResponse
    /\ resp' = [svc |-> "llms", raw |-> raw, question |-> question,
                answer |-> parse_response(raw, question, active_model_id)]
    /\ collection' = collection
    /\ UNCHANGED regvars

\* services/synthesis.py:
\* answer = self._parse_response(response, question, segments)
ParseAnswer(raw, question, transcript_id) ==
    /\ resp = NoResponse
    /\ LET segments == synthesizer_segments(collection, transcript_id)
           answer == synthesis_parse_response(raw, question, segments,
                                              active_model_id)
       IN  resp' = [svc |-> "synthesis", raw |-> raw, question |-> question,
                    segments |-> segments,
                    answer |-> answer,
                    supporting_segments |->
                        resolve_supporting_segments(answer.points, segments)]
    /\ collection' = collection
    /\ UNCHANGED regvars

NextParse ==
    \/ \E tr \in Transcripts \cup Gapped : IndexTranscript(tr)
    \/ \E raw \in RawTexts, q \in LlmQuestions : ParseLlmAnswer(raw, q)
    \/ \E raw \in RawTexts, q \in LlmQuestions, t \in Scopes : ParseAnswer(raw, q, t)
    \/ Deliver

SpecParse == InitSearch /\ [][NextParse]_vars

----------------------------------------------------------------------------
(* Properties of the model registry, checked under Spec *)

LoadedIds == {id \in DOMAIN models : models[id].loaded}

\* the ids the catalog registers with requires_gpu = True
GpuModelIds ==
    LET full == register_available_models(NoModels, TRUE, TRUE)
    IN  {id \in DOMAIN full : full[id].requires_gpu}

NothingLoadedBefore ==
    \A id \in DOMAIN last.pre.models : ~last.pre.models[id].loaded

\* C1: in every reachable state at most one descriptor of the catalog
\* reports loaded = true.
C1_SingleActive == Cardinality(LoadedIds) <= 1

\* C1 witness: a third successful load has just switched from one loaded
\* model to another, and exactly one descriptor is loaded.
C1_Witness ==
    /\ last.op = "select" /\ last.ret = "True" /\ last.load = "ok"
    /\ loads >= 3
    /\ last.pre.active_model_id \notin {NoneId, last.arg}
    /\ last.pre.models[last.pre.active_model_id].loaded
    /\ LoadedIds = {last.arg}

\* C2: when select(id) fails to load id while a different model A was
\* active, it returns false and afterwards nothing is active: A is unloaded
\* with its handles released and the active id is null.
C2_FailedLoadLeavesNoActive ==
    (/\ last.op = "select" /\ last.load = "fail"
     /\ last.pre.active_model_id \notin {NoneId, last.arg})
    => /\ last.ret = "False"
       /\ active_model_id = NoneId
       /\ active_model = NoHandle
       /\ active_tokenizer = NoHandle
       /\ ~models[last.pre.active_model_id].loaded
       /\ models[last.pre.active_model_id].model = NoHandle
       /\ models[last.pre.active_model_id].tokenizer = NoHandle
       /\ LoadedIds = {}

\* C2 witness: a select whose load failed while another, loaded model was
\* active.
C2_Witness ==
    /\ last.op = "select" /\ last.load = "fail" /\ last.ret = "False"
    /\ last.pre.active_model_id \notin {NoneId, last.arg}
    /\ last.pre.models[last.pre.active_model_id].loaded
    /\ last.pre.active_model # NoHandle

\* C3: select(id) of the id that is already active returns true and performs
\* no unload and no load: the registry is the same after the call as before.
C3_SelectActiveIsNoOp ==
    (last.op = "select" /\ last.pre.active_model_id = last.arg)
    => /\ last.ret = "True"
       /\ last.load = "none"
       /\ CurrentRegistry = last.pre

\* C4: select of a model that requires a GPU, on a host without GPU, returns
\* false and leaves the registry exactly as it was before the call.
C4_GpuSelectWithoutGpuChangesNothing ==
    (last.op = "select" /\ last.arg \in GpuModelIds /\ ~has_gpu)
    => /\ last.ret = "False"
       /\ CurrentRegistry = last.pre

\* C4 witness: such a select was refused while a loaded model was active,
\* and that model is still the active, loaded one.
C4_Witness ==
    /\ last.op = "select" /\ last.arg \in GpuModelIds /\ ~has_gpu
    /\ last.ret = "False"
    /\ last.pre.active_model_id # NoneId
    /\ active_model_id = last.pre.active_model_id
    /\ models[active_model_id].loaded

\* C5: no descriptor with requires_gpu = true is loaded while has_gpu is
\* false, and no load of a GPU-required model takes the float32 CPU path.
C5_NoGpuModelOnCpu ==
    /\ \A id \in DOMAIN models :
           (models[id].requires_gpu /\ models[id].loaded) => has_gpu
    /\ (last.op \in {"init", "select"} /\ last.load = "ok"
        /\ last.arg \in GpuModelIds) => last.kwargs = "quantized"

\* C5 witness: on a host without GPU a select of the GPU-required model was
\* attempted and a CPU model is the loaded one.
C5_Witness ==
    /\ ~has_gpu
    /\ last.op = "select" /\ last.arg \in GpuModelIds
    /\ \E id \in DOMAIN models : models[id].loaded /\ ~models[id].requires_gpu

\* C6: a generation call made while no descriptor is loaded fails with the
\* no-model error before the generation capability is invoked, and leaves
\* the registry unchanged.
C6_GenerateWithoutModelFails ==
    (last.op = "generate" /\ NothingLoadedBefore)
    => /\ last.ret = "ValueError"
       /\ ~last.invoked
       /\ gen.pc = "idle"
       /\ CurrentRegistry = last.pre

\* C6 witness: a generation call was refused in a state with no loaded model.
C6_Witness ==
    /\ last.op = "generate" /\ last.ret = "ValueError"
    /\ NothingLoadedBefore
    /\ active_model = NoHandle

\* C7: while a generation call is running, the active model, tokenizer and
\* id are the ones it started with and are not null: no unload or select
\* takes effect between its start and its end.
C7_GenerationNotInterleaved ==
    gen.pc = "running"
    => /\ active_model = gen.model
       /\ active_tokenizer = gen.tokenizer
       /\ active_model_id = gen.id
       /\ active_model # NoHandle
       /\ active_tokenizer # NoHandle

\* C7 witness: a select of another registered model arrived while a
\* generation was running, and waits.
C7_Witness ==
    /\ gen.pc = "running"
    /\ waiting.op = "select"
    /\ waiting.arg \in DOMAIN models
    /\ waiting.arg # active_model_id

----------------------------------------------------------------------------
(* Properties of the query strategies, checked under SpecSearch *)

IsResponse(svc_set, search_type) ==
    /\ resp.svc \in svc_set
    /\ resp.search_type = search_type
    /\ ~resp.raised

\* the stored entries a query scoped to transcript_id may draw from
Stored(transcript_id) ==
    {collection[i] : i \in {j \in 1..Len(collection) :
        transcript_id = NoneId
            \/ collection[j].metadata.transcript_id = transcript_id}}

IsStoredSegment(r, transcript_id) ==
    \E e \in Stored(transcript_id) :
        /\ r.segment_id = e.metadata.id
        /\ r.start_time = e.metadata.start_time
        /\ r.end_time = e.metadata.end_time
        /\ r.transcript_id = e.metadata.transcript_id
        /\ r.text = e.document

\* C8: every result of the KEYWORD strategy is one stored segment (id,
\* start, end, transcript_id and text of the same segment) and its text
\* contains the question case-insensitively.
C8_KeywordResultsAreMatchingSegments ==
    IsResponse({"search", "qa"}, "keyword")
    => \A j \in 1..Len(resp.results) :
           /\ IsStoredSegment(resp.results[j], resp.transcript_id)
           /\ contains(lower(resp.question), lower(resp.results[j].text))

\* the stored entries that match the question, in storage order
ExpectedMatches ==
    SelectSeq(collection, LAMBDA e :
        /\ resp.transcript_id = NoneId
              \/ e.metadata.transcript_id = resp.transcript_id
        /\ contains(lower(resp.question), lower(e.document)))

\* C9: for every provided top_k >= 0 the KEYWORD strategy returns exactly
\* the first min(top_k, number of matches) matches in storage order, each
\* with relevance_score = null.
C9_KeywordTopK ==
    (IsResponse({"search"}, "keyword") /\ resp.top_k # << >> /\ resp.top_k[1] >= 0)
    => LET n == IF resp.top_k[1] < Len(ExpectedMatches)
                THEN resp.top_k[1] ELSE Len(ExpectedMatches)
       IN  /\ Len(resp.results) = n
           /\ Len(resp.results) <= resp.top_k[1]
           /\ \A j \in 1..n :
                  /\ resp.results[j].segment_id = ExpectedMatches[j].metadata.id
                  /\ resp.results[j].text = ExpectedMatches[j].document
                  /\ resp.results[j].relevance_score = << >>

\* C10: every SEMANTIC result carries a relevance_score in [0, 100]
\* (0 .. 10000 in units of 0.01).
C10_SemanticScoreIsClamped ==
    IsResponse({"search"}, "semantic")
    => \A j \in 1..Len(resp.results) :
           /\ resp.results[j].relevance_score # << >>
           /\ resp.results[j].relevance_score[1] >= 0
           /\ resp.results[j].relevance_score[1] <= 10000

----------------------------------------------------------------------------
(* Properties of the LLM strategy, checked under SpecLlm *)

\* an llm query has been answered, with a response or with an error
IsLlmCall == resp.svc = "search" /\ resp.search_type = "llm"

\* the explicit response of the LLM strategy for a transcript without
\* segments
IsNoTranscriptResponse ==
    /\ ~resp.raised
    /\ resp.not_addressed
    /\ resp.summary = <<"No transcript found.">>
    /\ resp.model_id = "none"
    /\ resp.results = << >>

AnswerPoints(r) == IF "points" \in DOMAIN r THEN r.points ELSE << >>

\* C15: whenever the segment list given to generate_answer is non-empty,
\* the answer the LLM strategy returns has at least one point, and exactly
\* one point at the first segment's start time when none was extracted.
C15_LlmAnswerHasPoint ==
    (IsResponse({"search"}, "llm") /\ resp.context # << >>)
    => /\ Len(AnswerPoints(resp)) >= 1
       /\ \A i \in 1..Len(AnswerPoints(resp)) :
              AnswerPoints(resp)[i].content
                      = "Relevant information found in the transcript"
              => /\ Len(AnswerPoints(resp)) = 1
                 /\ AnswerPoints(resp)[i].timestamp_seconds
                        = resp.context[1].start_time

----------------------------------------------------------------------------
(* Properties of the parsers, checked under SpecParse *)

\* C14: every point of an answer parsed by services/synthesis.py has its
\* timestamp between the first segment's start and the last segment's end;
\* a point is a bullet of the text with the timestamp the text gave it, or
\* the fallback point, so a bullet out of range is dropped, not moved.
C14_PointsAreGrounded ==
    resp.svc = "synthesis"
    => \A i \in 1..Len(resp.answer.points) :
           LET p == resp.answer.points[i]
           IN  /\ resp.segments # << >>
               /\ p.timestamp_seconds >= resp.segments[1].start_time
               /\ p.timestamp_seconds <= resp.segments[Len(resp.segments)].end_time
               /\ \/ \E j \in 1..Len(resp.raw) :
                        /\ resp.raw[j] \in DOMAIN KeyPoints
                        /\ p = KeyPoints[resp.raw[j]]
                  \/ /\ Len(resp.answer.points) = 1
                     /\ p.timestamp_seconds = resp.segments[1].start_time

\* C14 witness: a text with one bullet in range and one beyond the last
\* segment's end was parsed against a stored transcript; only the first
\* bullet is a point.
C14_Witness ==
    /\ resp.svc = "synthesis" /\ resp.segments # << >>
    /\ \E j \in 1..Len(resp.raw) :
           /\ resp.raw[j] \in DOMAIN KeyPoints
           /\ KeyPoints[resp.raw[j]].timestamp_seconds
                  > resp.segments[Len(resp.segments)].end_time
    /\ Len(resp.answer.points) = 1
    /\ resp.answer.points[1].content # "Relevant information found in the transcript"

\* the header of a COMPLETENESS: block: it is followed, after blanks only,
\* by a line break; services/llms.py reads the header in any letter case,
\* services/synthesis.py as written
IsCompletenessHeader(raw, i, any_case) ==
    /\ (IF any_case THEN upper(raw[i]) ELSE raw[i]) = "COMPLETENESS:"
    /\ \E j \in (i + 1)..Len(raw) :
           /\ raw[j] = "\n"
           /\ \A k \in (i + 1)..j : IsSpace(raw[k])

\* the value of the first COMPLETENESS: block of a text: the first
\* non-blank line after its header
CompletenessValue(raw, any_case) ==
    LET headers == {i \in 1..Len(raw) : IsCompletenessHeader(raw, i, any_case)}
        h == CHOOSE i \in headers : \A j \in headers : i <= j
        solid == {j \in (h + 1)..Len(raw) : ~IsSpace(raw[j])}
        s == CHOOSE j \in solid : \A k \in solid : j <= k
    IN  IF headers = {} \/ solid = {} THEN { }
        ELSE {raw[j] : j \in {k \in s..Len(raw) :
                                  \A m \in s..k : raw[m] # "\n"}}

----------------------------------------------------------------------------
(* Properties of the dispatchers and of indexing, checked under SpecSearch *)

\* C13: a query whose search_type is none of keyword, semantic and llm does
\* not raise and returns what the keyword strategy of the same service
\* returns for the same question, scope and top_k.
C13_UnknownTagFallsBackToKeyword ==
    (/\ resp.svc \in {"search", "qa"}
     /\ resp.requested \notin {"keyword", "semantic", "llm"}
     /\ ~(resp.raised /\ resp.error = "store"))
    => /\ ~resp.raised
       /\ resp.search_type = "keyword"
       /\ resp.results =
              (IF resp.svc = "search"
               THEN keyword_search(collection, resp.question,
                                   resp.transcript_id, resp.top_k).results
               ELSE qa_keyword_search(collection, resp.question,
                                      resp.transcript_id).results)

IdsOf(entries) == {entries[i].metadata.id : i \in 1..Len(entries)}

\* C16: after index_transcript(t, segs) the segments stored for t have no
\* duplicate ids, have exactly the ids of segs when no other id of t was
\* stored before, and every segment of segs is stored with the content
\* just written (the later write of an id replaces the earlier one).
C16_IndexIsIdKeyedLastWriterWins ==
    resp.svc = "index"
    => LET segs == resp.transcript.segments
           got == collection_get(collection, resp.transcript.id)
           written == {segs[i].id : i \in 1..Len(segs)}
       IN  /\ Cardinality(IdsOf(got)) = Len(got)
           /\ IdsOf(resp.before) \subseteq written => IdsOf(got) = written
           /\ \A i \in 1..Len(segs) :
                  \E j \in 1..Len(got) :
                      got[j] = StoredEntry(resp.transcript.id, segs[i])

----------------------------------------------------------------------------
(* Properties of registration, checked under SpecRegister *)

\* C17: registering an id the catalog holds returns failure and leaves the
\* registry as it was, descriptor included; registering a new id adds a
\* descriptor with the given name, reference and requires_gpu, loaded =
\* false and no handles, and leaves the other descriptors and the active
\* model as they were.
C17_RegisterDuplicateIsRefused ==
    last.op = "register"
    => IF last.arg \in DOMAIN last.pre.models
       THEN last.ret = "False" /\ CurrentRegistry = last.pre
       ELSE /\ last.ret = "True"
            /\ DOMAIN models = DOMAIN last.pre.models \cup {last.arg}
            /\ \A id \in DOMAIN last.pre.models : models[id] = last.pre.models[id]
            /\ models[last.arg] =
                   [id |-> last.arg, name |-> last.registration.name,
                    hf_model_id |-> last.registration.hf_model_id,
                    requires_gpu |-> last.registration.requires_gpu,
                    loaded |-> FALSE, model |-> NoHandle, tokenizer |-> NoHandle]
            /\ active_model_id = last.pre.active_model_id
            /\ active_model = last.pre.active_model
            /\ active_tokenizer = last.pre.active_tokenizer

\* C17 witness: the id of the loaded, active model was registered again
\* under another name and was refused.
C17_Witness ==
    /\ last.op = "register" /\ last.ret = "False"
    /\ last.arg = active_model_id
    /\ models[last.arg].loaded /\ models[last.arg].model # NoHandle
    /\ models[last.arg].name # last.registration.name

----------------------------------------------------------------------------
(* Scheduling of the handlers, checked under Spec *)

\* C18: while a generation is executing, a request that has been accepted
\* meanwhile can be handled and completed.
C18_HandlersRunOffTheLoop ==
    (gen.pc = "running" /\ waiting # NoRequest) => ENABLED RunWaiting

----------------------------------------------------------------------------
(* Properties of the summary, checked under SpecParse *)

KnownHeaders == {"SUMMARY:", "KEY POINTS:", "COMPLETENESS:"}

\* the text of the first SUMMARY: block of a text: the words after the
\* header and its line break, up to the next known header or the end
SummaryBlock(raw, any_case) ==
    LET headers == {i \in 1..Len(raw) :
                       /\ (IF any_case THEN upper(raw[i]) ELSE raw[i]) = "SUMMARY:"
                       /\ \E j \in (i + 1)..Len(raw) :
                              /\ raw[j] = "\n"
                              /\ \A k \in (i + 1)..j : IsSpace(raw[k])}
        h == CHOOSE i \in headers : \A j \in headers : i <= j
        body == {j \in (h + 1)..Len(raw) :
                    \A k \in (h + 1)..j :
                        (IF any_case THEN upper(raw[k]) ELSE raw[k])
                            \notin KnownHeaders}
    IN  IF headers = {} THEN << >>
        ELSE SelectSeq(SubSeq(raw, h + 1, h + Cardinality(body)),
                       LAMBDA tok : ~IsSpace(tok))

\* C21: when the text has a SUMMARY: block with text in it, the parsed
\* summary is that text, whitespace-normalized, up to the next known header
\* (KEY POINTS: or COMPLETENESS:, whichever comes first) or the end, so it
\* holds no header and nothing of the sections that follow.
C21_SummaryStopsAtNextHeader ==
    (/\ resp.svc \in {"llms", "synthesis"}
     /\ SummaryBlock(resp.raw, resp.svc = "llms") # << >>)
    => resp.answer.summary = SummaryBlock(resp.raw, resp.svc = "llms")

\* C22: the parser returns an answer whose summary is never empty; when no
\* SUMMARY: block yields text the summary is the first paragraph of the
\* text if that is non-empty and does not start with a known header, and
\* the placeholder naming the question otherwise.
C22_SummaryFallback ==
    resp.svc \in {"llms", "synthesis"}
    => /\ resp.answer.summary # << >>
       /\ SummaryBlock(resp.raw, resp.svc = "llms") = << >>
          => LET first_para == first_paragraph(strip(resp.raw))
             IN  resp.answer.summary =
                     IF first_para # << >> /\ first_para[1] \notin KnownHeaders
                     THEN first_para
                     ELSE placeholder_summary(resp.question)

----------------------------------------------------------------------------
(* Further properties of the model registry, checked under Spec *)

\* C23: the model_id of an answer a generation call produced is the id that
\* was active when the generation started, the model and tokenizer handles
\* the call used are the handles of that model, and the id is not null.
C23_AnswerNamesGeneratingModel ==
    (last.op = "generate" /\ last.ret = "LlmAnswer")
    => /\ last.answer_model_id # NoneId
       /\ last.answer_model_id = last.pre.active_model_id
       /\ last.pre.active_model # NoHandle
       /\ last.pre.models[last.answer_model_id].model = last.pre.active_model
       /\ last.pre.models[last.answer_model_id].tokenizer = last.pre.active_tokenizer

\* C23 witness: an answer was produced by a model loaded by a select, while
\* a select of another registered model, sent during the generation, waits.
C23_Witness ==
    /\ last.op = "generate" /\ last.ret = "LlmAnswer"
    /\ loads >= 2
    /\ waiting.op = "select"
    /\ waiting.arg \in DOMAIN models
    /\ waiting.arg # last.answer_model_id

\* C24: a failure inside a branch of the dispatcher reaches the caller as an
\* error that carries nothing: no results, no summary, no model id. In the
\* llm branch every failure is raised, a failure of the semantic step or of
\* the store ends the call before the generation, and a failed generation
\* is followed by no second attempt (no answer) and by no response made of
\* the results of the semantic step.
C24_FailuresPropagate ==
    resp.svc = "search"
    => /\ resp.raised => resp.results = << >>
       /\ IsLlmCall
          => /\ resp.raised <=> resp.error # "none"
             /\ resp.error # "none"
                => /\ resp.results = << >>
                   /\ resp.summary = << >>
                   /\ resp.model_id = NoneId
             /\ resp.error = "store" => ~resp.invoked
             /\ resp.error \in {"ValueError", "Exception"}
                => resp.context # << >>

\* the generation failed after the semantic step had found a segment
C24_Witness ==
    /\ IsLlmCall
    /\ resp.error = "Exception"
    /\ resp.invoked
    /\ resp.raised
    /\ resp.top_k = <<1>>
    /\ resp.results = << >>
    /\ collection_get(collection, resp.transcript_id) # << >>

\* C25: after unload_active_model no model is active: the active id and the
\* registry's model and tokenizer handles are null, the descriptor that was
\* active has loaded = False and no handles and is otherwise as before,
\* every other descriptor and the set of catalog ids are unchanged; when no
\* id was active the registry is exactly as before.
C25_UnloadLeavesNothingActive ==
    last.op = "unload"
    => /\ active_model_id = NoneId
       /\ active_model = NoHandle
       /\ active_tokenizer = NoHandle
       /\ DOMAIN models = DOMAIN last.pre.models
       /\ \A id \in DOMAIN models :
             IF id = last.pre.active_model_id
             THEN models[id] = [last.pre.models[id] EXCEPT !.loaded = FALSE,
                                                           !.model = NoHandle,
                                                           !.tokenizer = NoHandle]
             ELSE models[id] = last.pre.models[id]
       /\ last.pre.active_model_id = NoneId => CurrentRegistry = last.pre

\* a loaded model was unloaded
C25_Witness ==
    /\ last.op = "unload"
    /\ last.pre.active_model_id # NoneId
    /\ last.pre.models[last.pre.active_model_id].loaded
    /\ last.pre.active_model # NoHandle
    /\ ~models[last.pre.active_model_id].loaded

\* unload_active_model was called while nothing was active
C25_WitnessIdle ==
    /\ last.op = "unload"
    /\ last.pre.active_model_id = NoneId

Contains(segment, timestamp_seconds) ==
    /\ segment.start_time <= timestamp_seconds
    /\ timestamp_seconds <= segment.end_time

\* C26: the supporting segments are aligned with the points: as many
\* entries as points, the i-th a segment of the list whose [start, end]
\* contains the timestamp of the i-th point or, when no segment contains
\* it, a segment whose start is nearest to it; with no segment at all the
\* list is empty.
C26_SupportingSegmentsAligned ==
    resp.svc = "synthesis"
    => LET points == resp.answer.points
           segments == resp.segments
           supporting == resp.supporting_segments
           Segs == {segments[j] : j \in 1..Len(segments)}
       IN  IF segments = << >>
           THEN supporting = << >>
           ELSE /\ Len(supporting) = Len(points)
                /\ \A i \in 1..Len(points) :
                      LET t == points[i].timestamp_seconds
                      IN  /\ supporting[i] \in Segs
                          /\ IF \E s \in Segs : Contains(s, t)
                             THEN Contains(supporting[i], t)
                             ELSE \A s \in Segs :
                                      abs(supporting[i].start_time - t)
                                        <= abs(s.start_time - t)

\* one point lies in a segment, another in the silence between two
\* segments and is given the later segment, whose start is nearer
C26_Witness ==
    /\ resp.svc = "synthesis"
    /\ Len(resp.segments) >= 2
    /\ Len(resp.answer.points) >= 2
    /\ \E i, k \in 1..Len(resp.answer.points) :
          /\ Contains(resp.supporting_segments[i],
                      resp.answer.points[i].timestamp_seconds)
          /\ \A j \in 1..Len(resp.segments) :
                ~Contains(resp.segments[j],
                          resp.answer.points[k].timestamp_seconds)
          /\ resp.supporting_segments[k] # resp.segments[1]

\* no segment, no point, no supporting segment
C26_WitnessEmpty ==
    /\ resp.svc = "synthesis"
    /\ resp.segments = << >>
    /\ resp.supporting_segments = << >>

\* C27: the reconstructed text of a transcript is the texts of its stored
\* segments, each once, in ascending order of start and with one blank
\* between two texts, in whatever order the store returned them; a
\* transcript without stored segments has no text (None), and the summary
\* is then None and the generation backend is not called.
C27_ReconstructedTextInStartOrder ==
    (resp.svc = "summarization" /\ ~(resp.raised /\ ~resp.called))
    => LET stored == collection_get(collection, resp.transcript_id)
           n == Len(stored)
       IN  IF n = 0
           THEN /\ resp.text = << >>
                /\ resp.summary = "None"
                /\ ~resp.called
                /\ ~resp.raised
           ELSE /\ resp.text # << >>
                /\ \E p \in Permutations(1..n) :
                      /\ \A i, j \in 1..n :
                            i < j => stored[p[i]].metadata.start_time
                                       <= stored[p[j]].metadata.start_time
                      /\ resp.text[1] = join([i \in 1..n |-> stored[p[i]].document])

\* the store returned three segments with a later one first
C27_Witness ==
    /\ resp.svc = "summarization"
    /\ resp.text # << >>
    /\ Len(resp.returned) = 3
    /\ resp.returned[1].metadata.start_time > resp.returned[2].metadata.start_time

\* a transcript without stored segments: no text, no summary, no call
C27_WitnessNone ==
    /\ resp.svc = "summarization"
    /\ resp.text = << >>
    /\ ~resp.raised
    /\ resp.summary = "None"
    /\ ~resp.called
    /\ collection # << >>

\* C28: in every reachable state of the registry, the state after a failed
\* load of the default model included, an active id that is not null names a
\* descriptor with loaded = True and the registry holds a model and a
\* tokenizer handle for it; and a descriptor with loaded = True is the
\* active one.
C28_ActiveIdMeansLoaded ==
    /\ active_model_id # NoneId
       => /\ active_model_id \in DOMAIN models
          /\ models[active_model_id].loaded
          /\ active_model # NoHandle
          /\ active_tokenizer # NoHandle
    /\ \A id \in DOMAIN models : models[id].loaded => id = active_model_id

\* C29: select_model with an id that is not in the catalog returns False
\* and leaves the registry as it was: the same descriptors, none added, the
\* same active id and handles, and nothing was loaded.
C29_SelectUnknownChangesNothing ==
    (last.op = "select" /\ last.arg \notin DOMAIN last.pre.models)
    => /\ last.ret = "False"
       /\ last.load = "none"
       /\ CurrentRegistry = last.pre
       /\ last.arg \notin DOMAIN models

\* an unknown id was selected while a model was loaded and active
C29_Witness ==
    /\ last.op = "select"
    /\ last.arg \notin DOMAIN last.pre.models
    /\ last.pre.active_model_id # NoneId
    /\ last.pre.models[last.pre.active_model_id].loaded
    /\ last.pre.active_model # NoHandle
    /\ active_model_id = last.pre.active_model_id
    /\ models[active_model_id].loaded

OtherTranscriptStored ==
    \E i \in 1..Len(collection) :
        collection[i].metadata.transcript_id # resp.transcript_id

\* C30: when a query names a transcript, every segment of the results of
\* the keyword, semantic and llm strategies, and every segment handed to the
\* generation as context, belongs to that transcript, whatever else is
\* stored.
C30_ResultsStayInScope ==
    (/\ resp.svc = "search"
     /\ ~resp.raised
     /\ resp.transcript_id # NoneId)
    => /\ \A i \in 1..Len(resp.results) :
             resp.results[i].transcript_id = resp.transcript_id
       /\ IsLlmCall
          => \A i \in 1..Len(resp.context) :
                 resp.context[i].transcript_id = resp.transcript_id

\* an llm query scoped to one transcript returned a result and used a
\* context while another transcript was stored
C30_Witness ==
    /\ IsLlmCall
    /\ ~resp.raised
    /\ resp.transcript_id # NoneId
    /\ resp.results # << >>
    /\ resp.context # << >>
    /\ resp.invoked
    /\ OtherTranscriptStored

\* the same for a keyword query
C30_WitnessKeyword ==
    /\ resp.svc = "search" /\ resp.search_type = "keyword"
    /\ ~resp.raised
    /\ resp.transcript_id # NoneId
    /\ resp.results # << >>
    /\ OtherTranscriptStored

\* the same for a semantic query
C30_WitnessSemantic ==
    /\ resp.svc = "search" /\ resp.search_type = "semantic"
    /\ ~resp.raised
    /\ resp.transcript_id # NoneId
    /\ resp.results # << >>
    /\ OtherTranscriptStored

====
